---- MODULE Spec2Model ----
(***************************************************************************)
(* Model of qiskit/ignis/characterization/hamiltonian/fitters.py:          *)
(* ZZFitter.ZZ_rate and CrossResonanceHamiltonianFitter (_calc_data,       *)
(* plot_rabi's split of the reduced data, _bloch_equation_fit_fun and the  *)
(* hamiltonian property).                                                  *)
(*                                                                         *)
(* Conventions.  A Python list, tuple or string is a function on 0..n-1,   *)
(* so that indices are the source's.  A dict is a function on its key set. *)
(* A real number produced by a division is an exact rational               *)
(* [num, den] in lowest terms (floating-point rounding is not modelled).   *)
(* A value that may be None or an exception carries a tag.                 *)
(***************************************************************************)
EXTENDS Integers, Sequences, FiniteSets, TLC

(* cls                   the fitter's class                               *)
(* _backend_result_list  the backend results, each a dict from experiment *)
(*                       name to count dictionary                         *)
(* _xdata                the time points                                  *)
(* _circuit_names        one circuit name per time point                  *)
(* _qubits               the measured qubits' ids                         *)
(* _ydata                the reduced observable table                     *)
(* _params               the fit parameters, per series and qubit index   *)
(* _hamiltonian          the dict the hamiltonian property fills          *)
(* op, args, ret         the method called last, its arguments, and what  *)
(*                       it returned or raised                            *)
(* effect                for a hamiltonian access: whether it was the     *)
(*                       first, or left or changed the stored terms       *)
VARIABLES cls, _backend_result_list, _xdata, _circuit_names, _qubits,
          _ydata, _params, _hamiltonian, op, args, ret, effect

vars == <<cls, _backend_result_list, _xdata, _circuit_names, _qubits,
          _ydata, _params, _hamiltonian, op, args, ret, effect>>

(*************************** bounds of the model ***************************)
MaxQubits == 2      \* measured qubits per fitter; also the bitstring width
MaxCount == 1       \* largest count of one bitstring
MaxKeys == 3        \* distinct bitstrings observed in one experiment
MaxT == 2           \* time points (circuits) per fitter
MaxResults == 2     \* backend result objects supplied
MaxParam == 1       \* magnitude of a fitted parameter
MaxTime == 1        \* largest time point handed to the model function

(******************************* Python data *******************************)
PyLen(l) == Cardinality(DOMAIN l)

PyList(s) == [i \in 0..(Len(s) - 1) |-> s[i + 1]]

PyListsOver(S, n) == [0..(n - 1) -> S]

None == [tag |-> "None", val |-> <<>>]

Value(v) == [tag |-> "value", val |-> v]

Raise(e) == [tag |-> "raise", val |-> e]

Abs(n) == IF n < 0 THEN -n ELSE n

RECURSIVE GCD(_, _)
GCD(a, b) == IF b = 0 THEN a ELSE GCD(b, a % b)

\* n / d for d > 0, in lowest terms
Rat(n, d) == LET g == GCD(Abs(n), d) IN [num |-> n \div g, den |-> d \div g]

RatAdd(a, b) == Rat(a.num * b.den + b.num * a.den, a.den * b.den)

RatLeq(a, b) == a.num * b.den <= b.num * a.den

(************************ fields set by __init__ ***************************)
\* series=['0', '1'] handed to the base fitter by both classes
Series == PyList(<<"0", "1">>)

\* meas_basis = 'x', 'y', 'z'
meas_basis == PyList(<<"x", "y", "z">>)

\* circuit_names.append('cr_ham_tomo_sched_%d' % cind) for cind in range(len(xdata))
circuit_names(xdata) == [cind \in 0..(PyLen(xdata) - 1) |-> <<"cr_ham_tomo_sched", cind>>]

\* self.measured_qubits
measured_qubits == _qubits

\* list.index: the first position holding v
index(l, v) == CHOOSE i \in DOMAIN l : l[i] = v /\ \A j \in DOMAIN l : l[j] = v => i <= j

(***************************** _calc_data **********************************)
\* expname = '%s_%s_%s' % (circname, axis, serieslbl)
expname(circname, axis, serieslbl) == <<circname, axis, serieslbl>>

\* result.get_counts(expname) succeeds; otherwise QiskitError/KeyError
has_counts(result, name) == name \in DOMAIN result

\* the loop over self._backend_result_list: counts starts as {} and every
\* successful get_counts assigns it
RECURSIVE lookup_from(_, _, _, _)
lookup_from(results, name, k, counts) ==
    IF k >= PyLen(results) THEN counts
    ELSE lookup_from(results, name, k + 1,
                     IF has_counts(results[k], name) THEN results[k][name] ELSE counts)

\* the loop leaving at the first successful lookup
RECURSIVE lookup_first_from(_, _, _)
lookup_first_from(results, name, k) ==
    IF k >= PyLen(results) THEN <<>>
    ELSE IF has_counts(results[k], name) THEN results[k][name]
    ELSE lookup_first_from(results, name, k + 1)

lookup_first_match(results, name) == lookup_first_from(results, name, 0)


lookup(results, name) == lookup_from(results, name, 0, <<>>)

\* bits[::-1]
reversed(bits) == [i \in DOMAIN bits |-> bits[PyLen(bits) - 1 - i]]

\* bits[qind], the string not reversed
target_bit_unreversed(bits, qind) == bits[qind]

\* bits[::-1][qind]
target_bit(bits, qind) == reversed(bits)[qind]

RECURSIVE signed_sum(_, _, _)
signed_sum(counts, keys, qind) ==
    IF keys = {} THEN 0
    ELSE LET bits == CHOOSE b \in keys : TRUE
             rest == signed_sum(counts, keys \ {bits}, qind)
         IN IF target_bit(bits, qind) = "1" THEN rest - counts[bits]
            ELSE rest + counts[bits]

RECURSIVE sum_values(_, _)
sum_values(counts, keys) ==
    IF keys = {} THEN 0
    ELSE LET bits == CHOOSE b \in keys : TRUE
         IN counts[bits] + sum_values(counts, keys \ {bits})

\* lines 180-186: expv = 0; +/- count per bitstring; expv /= sum(counts.values())
expv_of(counts, qind) ==
    LET total == sum_values(counts, DOMAIN counts)
    IN IF total = 0 THEN Raise("ZeroDivisionError")
       ELSE Value(Rat(signed_sum(counts, DOMAIN counts, qind), total))

Array(l) == [tag |-> "ndarray", val |-> l]

\* np.array(m).T for a rows x cols nested list
np_transpose(m) == [j \in DOMAIN m[0] |-> [i \in DOMAIN m |-> m[i][j]]]

\* ndarray.ravel() of a 2-d array, row-major
np_ravel(m) ==
    LET C == PyLen(m[0])
    IN [k \in 0..(PyLen(m) * C - 1) |-> m[k \div C][k % C]]

\* np.array(bloch_vecs).ravel(), the transpose left out
flatten_time_major(bloch_vecs) == np_ravel(bloch_vecs)

\* np.array(bloch_vecs).T.ravel()
flatten(bloch_vecs) == np_ravel(np_transpose(bloch_vecs))

\* the value appended to temp_bloch_vec for one (series, qubit, circuit, axis)
cell(results, cnames, s, q, t, b) ==
    expv_of(lookup(results, expname(cnames[t], meas_basis[b], Series[s])), q)

\* position of a cell in the order the four nested loops visit it
visit_rank(nq, T, s, q, t, b) == ((s * nq + q) * T + t) * 3 + b

Cells(nq, T) == (DOMAIN Series) \X (0..(nq - 1)) \X (0..(T - 1)) \X (DOMAIN meas_basis)

FailingCells(results, cnames, nq) ==
    {c \in Cells(nq, PyLen(cnames)) :
        cell(results, cnames, c[1], c[2], c[3], c[4]).tag = "raise"}

FirstFailing(results, cnames, nq) ==
    LET F == FailingCells(results, cnames, nq)
        T == PyLen(cnames)
    IN CHOOSE c \in F : \A d \in F :
          visit_rank(nq, T, c[1], c[2], c[3], c[4]) <= visit_rank(nq, T, d[1], d[2], d[3], d[4])

\* bloch_vecs of one (series, qubit) once all its cells are computed
bloch_vecs(results, cnames, s, q) ==
    [t \in DOMAIN cnames |-> [b \in DOMAIN meas_basis |-> cell(results, cnames, s, q, t, b).val]]

reduced_entry(results, cnames, s, q) ==
    [mean |-> Array(flatten(bloch_vecs(results, cnames, s, q))), std |-> None]

\* _calc_data as a whole: the table it leaves in self._ydata and how it ends.
\* An exception leaves the table as far as the loops had filled it: the
\* series reached so far, and for the current series the qubits reached so
\* far, the last of them still {'mean': None, 'std': None}.
calc_data(results, cnames, nq) ==
    IF FailingCells(results, cnames, nq) = {}
    THEN [ydata |-> [lbl \in {Series[s] : s \in DOMAIN Series} |->
                        [q \in 0..(nq - 1) |->
                            reduced_entry(results, cnames, index(Series, lbl), q)]],
          ret |-> None]
    ELSE LET f == FirstFailing(results, cnames, nq)
         IN [ydata |-> [lbl \in {Series[s] : s \in 0..f[1]} |->
                            [q \in 0..(IF index(Series, lbl) = f[1] THEN f[2] ELSE nq - 1) |->
                                IF index(Series, lbl) = f[1] /\ q = f[2]
                                THEN [mean |-> None, std |-> None]
                                ELSE reduced_entry(results, cnames, index(Series, lbl), q)]],
             ret |-> cell(results, cnames, f[1], f[2], f[3], f[4])]

(******************************* plot_rabi *********************************)
\* np.split(a, 3): three equal chunks (a's length is a multiple of 3)
np_split3(a) ==
    LET n == PyLen(a) \div 3
    IN [c \in 0..2 |-> [i \in 0..(n - 1) |-> a[c * n + i]]]

(************************ _bloch_equation_fit_fun **************************)
\* A real number of the model function: an exact integer, or an entry of a
\* matrix exponential that is not evaluated (term = <<matrix, row, column>>).
Exact(n) == [exact |-> TRUE, val |-> n, term |-> <<>>]

Entry(m, i, j) == [exact |-> FALSE, val |-> 0, term |-> <<m, i, j>>]

RealMul(a, b) ==
    IF a.exact /\ b.exact THEN Exact(a.val * b.val)
    ELSE IF (a.exact /\ a.val = 0) \/ (b.exact /\ b.val = 0) THEN Exact(0)
    ELSE IF a.exact /\ a.val = 1 THEN b
    ELSE IF b.exact /\ b.val = 1 THEN a
    ELSE [exact |-> FALSE, val |-> 0, term |-> <<"*", a, b>>]

RealAdd(a, b) ==
    IF a.exact /\ b.exact THEN Exact(a.val + b.val)
    ELSE IF a.exact /\ a.val = 0 THEN b
    ELSE IF b.exact /\ b.val = 0 THEN a
    ELSE [exact |-> FALSE, val |-> 0, term |-> <<"+", a, b>>]

\* vec_r_t0 = np.matrix([0, 0, 1]).T, a 3 x 1 matrix
vec_r_t0 == [i \in 0..2 |-> [j \in 0..0 |-> Exact(IF i = 2 THEN 1 ELSE 0)]]

mat_a(omega_x, omega_y, delta) ==
    PyList(<<PyList(<<0, delta, omega_y>>),
             PyList(<<-delta, 0, -omega_x>>),
             PyList(<<-omega_y, omega_x, 0>>)>>)

\* mat_a * t
mat_scale(m, t) == [i \in DOMAIN m |-> [j \in DOMAIN m[i] |-> m[i][j] * t]]

\* la.expm(m): the identity for the zero matrix, otherwise left unevaluated
expm(m) ==
    IF \A i \in DOMAIN m : \A j \in DOMAIN m[i] : m[i][j] = 0
    THEN [i \in DOMAIN m |-> [j \in DOMAIN m[i] |-> Exact(IF i = j THEN 1 ELSE 0)]]
    ELSE [i \in DOMAIN m |-> [j \in DOMAIN m[i] |-> Entry(m, i, j)]]

\* the np.matrix product of a 3 x 3 and a 3 x 1 matrix
mat_mul(a, b) ==
    [i \in DOMAIN a |-> [j \in DOMAIN b[0] |->
        RealAdd(RealAdd(RealMul(a[i][0], b[0][j]), RealMul(a[i][1], b[1][j])),
                RealMul(a[i][2], b[2][j]))]]

\* la.expm(mat_a * t) * vec_r_t0
bloch_at(t, omega_x, omega_y, delta) ==
    mat_mul(expm(mat_scale(mat_a(omega_x, omega_y, delta), t)), vec_r_t0)

\* np.array(vec_ts).T of the T x 3 x 1 array: axes reversed, 1 x 3 x T
np_transpose3(a) ==
    [i \in DOMAIN a[0][0] |-> [j \in DOMAIN a[0] |-> [k \in DOMAIN a |-> a[k][j][i]]]]

\* ravel() of a 3-d array, row-major
np_ravel3(a) ==
    LET B == PyLen(a[0])
        C == PyLen(a[0][0])
    IN [n \in 0..(PyLen(a) * B * C - 1) |-> a[n \div (B * C)][(n \div C) % B][n % C]]

\* np.array(vec_ts).ravel(), the transpose left out
bloch_fit_fun_time_major(x, omega_x, omega_y, delta) ==
    LET vec_ts == [k \in DOMAIN x |-> bloch_at(x[k], omega_x, omega_y, delta)]
    IN np_ravel3(vec_ts)


bloch_equation_fit_fun(x, omega_x, omega_y, delta) ==
    LET vec_ts == [k \in DOMAIN x |-> bloch_at(x[k], omega_x, omega_y, delta)]
    IN np_ravel3(np_transpose3(vec_ts))

(****************************** hamiltonian *********************************)
Terms == {"XI", "YI", "ZI", "XZ", "YZ", "ZZ"}

\* XZ taken from the sum instead of the difference
coefficients_xz_sum(fit_params0, fit_params1) ==
    [k \in Terms |->
        CASE k = "XI" -> Rat(fit_params0[0] + fit_params1[0], 2)
          [] k = "YI" -> Rat(fit_params0[1] + fit_params1[1], 2)
          [] k = "ZI" -> Rat(fit_params0[2] + fit_params1[2], 2)
          [] k = "XZ" -> Rat(fit_params0[0] + fit_params1[0], 2)
          [] k = "YZ" -> Rat(fit_params0[1] - fit_params1[1], 2)
          [] k = "ZZ" -> Rat(fit_params0[2] - fit_params1[2], 2)]

\* the six assignments of one loop iteration, for fit_params0 and fit_params1
coefficients(fit_params0, fit_params1) ==
    [k \in Terms |->
        CASE k = "XI" -> Rat(fit_params0[0] + fit_params1[0], 2)
          [] k = "YI" -> Rat(fit_params0[1] + fit_params1[1], 2)
          [] k = "ZI" -> Rat(fit_params0[2] + fit_params1[2], 2)
          [] k = "XZ" -> Rat(fit_params0[0] - fit_params1[0], 2)
          [] k = "YZ" -> Rat(fit_params0[1] - fit_params1[1], 2)
          [] k = "ZZ" -> Rat(fit_params0[2] - fit_params1[2], 2)]

\* memoised: coefficients already in the dict are returned as they are
hamiltonian_of_memoised(h, params, mq) ==
    [qid \in DOMAIN h |->
        IF (\E i \in DOMAIN mq : mq[i] = qid) /\ DOMAIN h[qid] = {}
        THEN coefficients(params["0"][index(mq, qid)], params["1"][index(mq, qid)])
        ELSE h[qid]]

\* += in place of =: each access adds to the coefficients already there
hamiltonian_of_accumulating(h, params, mq) ==
    [qid \in DOMAIN h |->
        IF \E i \in DOMAIN mq : mq[i] = qid
        THEN LET new == coefficients(params["0"][index(mq, qid)],
                                     params["1"][index(mq, qid)])
             IN [k \in Terms |->
                    IF k \in DOMAIN h[qid] THEN RatAdd(h[qid][k], new[k]) ELSE new[k]]
        ELSE h[qid]]

\* self._hamiltonian after the loop over self.measured_qubits: the six terms
\* of every measured qubit are overwritten, anything else in the dict stays
hamiltonian_of(h, params, mq) ==
    [qid \in DOMAIN h |->
        IF \E i \in DOMAIN mq : mq[i] = qid
        THEN LET new == coefficients(params["0"][index(mq, qid)],
                                     params["1"][index(mq, qid)])
             IN [k \in (DOMAIN h[qid]) \cup Terms |->
                    IF k \in Terms THEN new[k] ELSE h[qid][k]]
        ELSE h[qid]]

(******************************** ZZ_rate **********************************)
\* BaseFitter._get_param(param_ind, qid, series, err=False): one qubit's
\* parameter, or with qid = -1 the list of every qubit's
get_param(params, qubits, param_ind, qid, series) ==
    IF qid # -1
    THEN [tag |-> "float", val |-> params[series][qid][param_ind]]
    ELSE [tag |-> "list", val |-> [i \in DOMAIN qubits |-> params[series][i][param_ind]]]

\* np.array(a) - np.array(b) for two scalars or two lists of one length
np_sub(a, b) ==
    IF a.tag = "list"
    THEN Array([i \in DOMAIN a.val |-> a.val[i] - b.val[i]])
    ELSE [tag |-> "float", val |-> a.val - b.val]

\* the subtraction the other way round
ZZ_rate_of_reversed(params, qubits, qind) ==
    LET freq0 == get_param(params, qubits, 1, qind, "0")
        freq1 == get_param(params, qubits, 1, qind, "1")
    IN np_sub(freq0, freq1)


ZZ_rate_of(params, qubits, qind) ==
    LET freq0 == get_param(params, qubits, 1, qind, "0")
        freq1 == get_param(params, qubits, 1, qind, "1")
    IN np_sub(freq1, freq0)

(************************** bounded input families **************************)
Width == MaxQubits

BitStrings == [0..(Width - 1) -> {"0", "1"}]

\* every count dictionary of at most MaxKeys bitstrings, counts 0..MaxCount
AllCounts ==
    UNION {[D -> 0..MaxCount] : D \in {K \in SUBSET BitStrings : Cardinality(K) <= MaxKeys}}

AllZeros == [i \in 0..(Width - 1) |-> "0"]

AllOnes == [i \in 0..(Width - 1) |-> "1"]

\* only qubit 0, the rightmost character, is 1
OnlyQubit0 == [i \in 0..(Width - 1) |-> IF i = Width - 1 THEN "1" ELSE "0"]

\* count dictionaries with a positive total and different expectation values
Palette ==
    PyList(<<[bits \in {AllZeros} |-> 1],
             [bits \in {OnlyQubit0} |-> 1],
             [bits \in {AllZeros, AllOnes} |-> IF bits = AllZeros THEN MaxCount ELSE 1]>>)

\* how a result's counts are laid out: the offset v into the palette, and
\* which of its experiments, if any, has a total of 0
Variants ==
    {<<0, "none">>, <<1, "none">>, <<0, "empty_last">>, <<1, "zero_first">>}

\* One backend result: the experiments of circuits 0..k-1, experiment
\* (t, axis b, series s) holding Palette[(v + t + 2 * b + s) % 3]; with
\* "empty_last" the last circuit's ('z', '1') experiment ran no shots ({}),
\* with "zero_first" circuit 0's ('x', '0') experiment counted 0 of one string.
Result(cnames, k, v, z) ==
    [e \in {expname(cnames[t], meas_basis[b], Series[s]) :
                t \in 0..(k - 1), b \in DOMAIN meas_basis, s \in DOMAIN Series} |->
        LET t == index(cnames, e[1])
            b == index(meas_basis, e[2])
            s == index(Series, e[3])
        IN IF z = "empty_last" /\ t = PyLen(cnames) - 1 /\ b = 2 /\ s = 1 THEN <<>>
           ELSE IF z = "zero_first" /\ t = 0 /\ b = 0 /\ s = 0
                THEN [bits \in {AllZeros} |-> 0]
           ELSE Palette[(v + t + 2 * b + s) % 3]]

Results(cnames) ==
    {Result(cnames, k, w[1], w[2]) : k \in 0..PyLen(cnames), w \in Variants}

ResultLists(cnames) == UNION {PyListsOver(Results(cnames), n) : n \in 1..MaxResults}

\* lists of distinct qubit ids: 0..n-1 in order, and rotated
QubitLists ==
    {[i \in 0..(n - 1) |-> (i + r) % n] : n \in 1..MaxQubits, r \in 0..(MaxQubits - 1)}

TimeLists == UNION {PyListsOver(0..MaxTime, n) : n \in 1..MaxT}

\* the time points 0, 1, ..., n-1
Ramp(n) == [i \in 0..(n - 1) |-> i]

\* fitted parameter vectors of one (series, qubit): zero, or MaxParam in one
\* of omega_x, omega_y, delta
FitVectors == {v \in PyListsOver({0, MaxParam}, 3) : v[0] + v[1] + v[2] <= MaxParam}

\* A fit of every series and qubit: series '0' fitted around v0 and series '1'
\* around v1, the qubits' parameters apart from each other.
FitOutcome(v0, v1, nq) ==
    [lbl \in {"0", "1"} |->
        [i \in 0..(nq - 1) |->
            [k \in 0..2 |-> IF lbl = "0" THEN v0[k] + i ELSE v1[k] + 2 * i]]]

NoArgs == [fn |-> "none"]

(******************************** the state ********************************)
\* the fields as the constructors leave them for the first reduction pass
Constructed(c, xdata, qubits, results, params, a) ==
    /\ cls = c
    /\ _backend_result_list = results
    /\ _xdata = xdata
    /\ _circuit_names = circuit_names(xdata)
    /\ _qubits = qubits
    /\ _ydata = <<>>
    /\ _params = params
    /\ _hamiltonian = [qid \in {qubits[i] : i \in DOMAIN qubits} |-> <<>>]
    /\ op = "init"
    /\ args = a
    /\ ret = None
    /\ effect = "none"

CR == "CrossResonanceHamiltonianFitter"

ZZ == "ZZFitter"

(******************************** operations *******************************)
_calc_data ==
    /\ cls = CR
    /\ LET r == calc_data(_backend_result_list, _circuit_names, PyLen(measured_qubits))
       IN /\ _ydata' = r.ydata
          /\ ret' = r.ret
    /\ op' = "_calc_data"
    /\ args' = NoArgs
    /\ effect' = "none"
    /\ UNCHANGED <<cls, _backend_result_list, _xdata, _circuit_names, _qubits,
                   _params, _hamiltonian>>

\* the reduced table holds both series' mean of qubit qind
has_mean(qind) ==
    \A lbl \in {"0", "1"} :
        /\ lbl \in DOMAIN _ydata
        /\ qind \in DOMAIN _ydata[lbl]
        /\ _ydata[lbl][qind].mean.tag = "ndarray"

\* plot_rabi's experimental data: cr0_x, cr0_y, cr0_z and cr1_x, cr1_y, cr1_z.
\* Without the means the subscripts raise before anything is drawn.
plot_rabi ==
    /\ cls = CR
    /\ \E qind \in DOMAIN measured_qubits :
          /\ has_mean(qind)
          /\ ret' = Value([lbl \in {"0", "1"} |-> np_split3(_ydata[lbl][qind].mean.val)])
          /\ args' = [fn |-> "plot_rabi", qind |-> qind]
    /\ op' = "plot_rabi"
    /\ effect' = "none"
    /\ UNCHANGED <<cls, _backend_result_list, _xdata, _circuit_names, _qubits,
                   _ydata, _params, _hamiltonian>>

\* the fit pass of the base fitter replaces the fit parameters
fit_data ==
    /\ \E v0, v1 \in FitVectors :
          /\ _params' = FitOutcome(v0, v1, PyLen(_qubits))
          /\ _params' # _params
    /\ op' = "fit_data"
    /\ args' = NoArgs
    /\ ret' = None
    /\ effect' = "none"
    /\ UNCHANGED <<cls, _backend_result_list, _xdata, _circuit_names, _qubits,
                   _ydata, _hamiltonian>>

hamiltonian ==
    /\ cls = CR
    /\ _hamiltonian' = hamiltonian_of(_hamiltonian, _params, measured_qubits)
    /\ ret' = Value(_hamiltonian')
    /\ effect' = IF \A qid \in DOMAIN _hamiltonian : DOMAIN _hamiltonian[qid] = {}
                 THEN "first"
                 ELSE IF _hamiltonian' = _hamiltonian THEN "same" ELSE "changed"
    /\ op' = "hamiltonian"
    /\ args' = NoArgs
    /\ UNCHANGED <<cls, _backend_result_list, _xdata, _circuit_names, _qubits,
                   _ydata, _params>>

ZZ_rate ==
    /\ cls = ZZ
    /\ \E qind \in (-1)..(PyLen(_qubits) - 1) :
          /\ ret' = Value(ZZ_rate_of(_params, _qubits, qind))
          /\ args' = [fn |-> "ZZ_rate", qind |-> qind]
    /\ op' = "ZZ_rate"
    /\ effect' = "none"
    /\ UNCHANGED <<cls, _backend_result_list, _xdata, _circuit_names, _qubits,
                   _ydata, _params, _hamiltonian>>

\* lines 179-187 on their own: one count dictionary converted for one qubit
convert_count ==
    /\ op = "init"
    /\ args.fn = "convert_count"
    /\ ret' = expv_of(args.counts, args.qind)
    /\ op' = "convert_count"
    /\ UNCHANGED <<cls, _backend_result_list, _xdata, _circuit_names, _qubits,
                   _ydata, _params, _hamiltonian, args, effect>>

_bloch_equation_fit_fun ==
    /\ op = "init"
    /\ args.fn = "_bloch_equation_fit_fun"
    /\ ret' = Value(bloch_equation_fit_fun(args.x, args.p[0], args.p[1], args.p[2]))
    /\ op' = "_bloch_equation_fit_fun"
    /\ UNCHANGED <<cls, _backend_result_list, _xdata, _circuit_names, _qubits,
                   _ydata, _params, _hamiltonian, args, effect>>

(***************************** specifications ******************************)
ZeroFit(nq) == FitOutcome([k \in 0..2 |-> 0], [k \in 0..2 |-> 0], nq)

\* a fitter of either class, its data complete or with one empty experiment
Init ==
    \E c \in {CR, ZZ}, qubits \in QubitLists, v0, v1 \in FitVectors,
       z \in {"none", "empty_last"} :
        Constructed(c, Ramp(MaxT), qubits,
                    PyList(<<Result(circuit_names(Ramp(MaxT)), MaxT, 0, z)>>),
                    FitOutcome(v0, v1, PyLen(qubits)), NoArgs)

Next == _calc_data \/ fit_data \/ hamiltonian \/ ZZ_rate

Spec == Init /\ [][Next]_vars

\* the data reduction over every supplied list of backend results
InitReduce ==
    \E T \in 1..MaxT, nq \in 1..MaxQubits :
        \E results \in ResultLists(circuit_names(Ramp(T))) :
            Constructed(CR, Ramp(T), Ramp(nq), results, ZeroFit(nq), NoArgs)

NextReduce == _calc_data \/ plot_rabi

SpecReduce == InitReduce /\ [][NextReduce]_vars

\* the pure functions, each applied once to the input drawn
FunInputs ==
    {[fn |-> "convert_count", counts |-> counts, qind |-> qind] :
        counts \in AllCounts, qind \in 0..(MaxQubits - 1)}
    \cup
    {[fn |-> "_bloch_equation_fit_fun", x |-> x, p |-> p] :
        x \in TimeLists, p \in PyListsOver((-MaxParam)..MaxParam, 3)}

InitFun ==
    \E a \in FunInputs :
        Constructed(CR, Ramp(1), Ramp(1), PyList(<<>>), ZeroFit(1), a)

NextFun == convert_count \/ _bloch_equation_fit_fun

SpecFun == InitFun /\ [][NextFun]_vars

(********************************* claims **********************************)
RatNeg(a) == [num |-> -a.num, den |-> a.den]

\* the counts of the bitstrings whose character at distance qind from the
\* right end is c
CountOfBit(counts, qind, c) ==
    sum_values(counts, {bits \in DOMAIN counts : bits[PyLen(bits) - 1 - qind] = c})

\* C1: for a count dictionary of total N > 0 and a qubit index qind, the
\* expectation value is (counts with the qind-th character from the right '0'
\* minus counts with it '1') / N; it lies in [-1, 1], is 1 when every
\* bitstring has the target bit 0 and -1 when every bitstring has it 1.
C1_ExpectationValue ==
    (op = "convert_count" /\ sum_values(args.counts, DOMAIN args.counts) > 0) =>
        LET counts == args.counts
            qind == args.qind
            N == sum_values(counts, DOMAIN counts)
        IN /\ ret.tag = "value"
           /\ ret.val = Rat(CountOfBit(counts, qind, "0") - CountOfBit(counts, qind, "1"), N)
           /\ RatLeq(Rat(-1, 1), ret.val)
           /\ RatLeq(ret.val, Rat(1, 1))
           /\ (\A bits \in DOMAIN counts : bits[PyLen(bits) - 1 - qind] = "0")
                 => ret.val = Rat(1, 1)
           /\ (\A bits \in DOMAIN counts : bits[PyLen(bits) - 1 - qind] = "1")
                 => ret.val = Rat(-1, 1)

\* a dictionary with both bit values counted for a qubit other than qubit 0,
\* the ones in the majority
C1_Witness ==
    /\ op = "convert_count"
    /\ args.qind > 0
    /\ CountOfBit(args.counts, args.qind, "0") > 0
    /\ CountOfBit(args.counts, args.qind, "1") > CountOfBit(args.counts, args.qind, "0")
    /\ ret.tag = "value"
    /\ ret.val.num < 0
    /\ ret.val.den > 1

\* the cell at which a failed reduction pass stopped
StoppedAt == FirstFailing(_backend_result_list, _circuit_names, PyLen(measured_qubits))

StoppedName == expname(_circuit_names[StoppedAt[3]], meas_basis[StoppedAt[4]], Series[StoppedAt[1]])

Reduced == op \in {"_calc_data", "plot_rabi"}

Failed ==
    FailingCells(_backend_result_list, _circuit_names, PyLen(measured_qubits)) # {}

FoundSomewhere(name) ==
    \E k \in DOMAIN _backend_result_list : has_counts(_backend_result_list[k], name)

\* C2: when the count dictionary retrieved for an experiment has total count
\* 0, the reduction raises a named EmptyOutcomeSet error, not a bare
\* division by zero.
C2_EmptyOutcomeSetRaised ==
    (op = "_calc_data" /\ Failed /\ FoundSomewhere(StoppedName)) =>
        (ret.tag = "raise" /\ ret.val = "EmptyOutcomeSet")

\* C3: when an experiment name is found in none of the backend results, the
\* reduction fails with MissingExperimentData; it does not carry on with an
\* empty count dictionary.
C3_MissingExperimentDataRaised ==
    (op = "_calc_data" /\ Failed /\ ~FoundSomewhere(StoppedName)) =>
        (ret.tag = "raise" /\ ret.val = "MissingExperimentData")

\* the results holding an experiment, by position in the list
Holders(name) ==
    {k \in DOMAIN _backend_result_list : has_counts(_backend_result_list[k], name)}

FirstHolder(name) == CHOOSE k \in Holders(name) : \A j \in Holders(name) : k <= j

LastHolder(name) == CHOOSE k \in Holders(name) : \A j \in Holders(name) : k >= j

\* every stored expectation value is that of the counts held by the first
\* (or else the last) result
\* of the list that holds the experiment
StoredFrom(first) ==
    \A c \in Cells(PyLen(measured_qubits), PyLen(_circuit_names)) :
        LET name == expname(_circuit_names[c[3]], meas_basis[c[4]], Series[c[1]])
            k == IF first THEN FirstHolder(name) ELSE LastHolder(name)
            e == expv_of(_backend_result_list[k][name], c[2])
        IN /\ e.tag = "value"
           /\ _ydata[Series[c[1]]][c[2]].mean.val[c[4] * PyLen(_circuit_names) + c[3]] = e.val

\* C4 as stated: of several results holding an experiment, the first in list
\* order supplies the counts.
C4_FirstMatchWins == (Reduced /\ ~Failed) => StoredFrom(TRUE)

\* C4 as amended: of several results holding an experiment, the last in list
\* order supplies the counts; every successful lookup replaces the one before.
C4_LastMatchWins == (Reduced /\ ~Failed) => StoredFrom(FALSE)

\* an experiment held by two results with different expectation values
C4_Witness ==
    /\ op = "_calc_data"
    /\ ~Failed
    /\ \E t \in DOMAIN _circuit_names, b \in DOMAIN meas_basis, s \in DOMAIN Series :
          LET name == expname(_circuit_names[t], meas_basis[b], Series[s])
          IN /\ Cardinality(Holders(name)) >= 2
             /\ expv_of(_backend_result_list[FirstHolder(name)][name], 0)
                   # expv_of(_backend_result_list[LastHolder(name)][name], 0)

\* C5: the stored mean of every series and qubit has length 3*T and holds at
\* index b*T + t the expectation value of basis b at time point t, so that
\* its split into 3 equal chunks gives the X, Y and Z sequences in time order.
C5_BasisMajor ==
    LET T == PyLen(_circuit_names)
        expect(s, q, t, b) == cell(_backend_result_list, _circuit_names, s, q, t, b).val
    IN /\ (Reduced /\ ~Failed) =>
            \A s \in DOMAIN Series, q \in DOMAIN measured_qubits :
                LET mean == _ydata[Series[s]][q].mean
                IN /\ mean.tag = "ndarray"
                   /\ PyLen(mean.val) = 3 * T
                   /\ \A b \in 0..2, t \in 0..(T - 1) :
                         /\ mean.val[b * T + t] = expect(s, q, t, b)
                         /\ np_split3(mean.val)[b][t] = expect(s, q, t, b)
       /\ op = "plot_rabi" =>
            \A s \in DOMAIN Series, b \in 0..2 :
                /\ PyLen(ret.val[Series[s]][b]) = T
                /\ \A t \in 0..(T - 1) :
                      ret.val[Series[s]][b][t] = expect(s, args.qind, t, b)

\* the chunks of a reduction over two or more time points, X at the second
\* time point differing from Y at the first
C5_Witness ==
    /\ op = "plot_rabi"
    /\ PyLen(_circuit_names) >= 2
    /\ PyLen(_backend_result_list) >= 2
    /\ ret.val["0"][0][1] # ret.val["0"][1][0]

\* C6: the model function returns 3*T values, index b*T + t holding
\* component b of the Bloch vector at x[t], and where x[t] = 0 the
\* components are exactly 0, 0, 1.
C6_ModelFunctionLayout ==
    op = "_bloch_equation_fit_fun" =>
        LET x == args.x
            T == PyLen(x)
        IN /\ PyLen(ret.val) = 3 * T
           /\ \A b \in 0..2, t \in 0..(T - 1) :
                 ret.val[b * T + t] = bloch_at(x[t], args.p[0], args.p[1], args.p[2])[b][0]
           /\ \A t \in 0..(T - 1) :
                 x[t] = 0 => /\ ret.val[t] = Exact(0)
                             /\ ret.val[T + t] = Exact(0)
                             /\ ret.val[2 * T + t] = Exact(1)

\* nonzero parameters, a zero time point after a nonzero one
C6_Witness ==
    /\ op = "_bloch_equation_fit_fun"
    /\ PyLen(args.x) >= 2
    /\ args.x[0] # 0
    /\ args.x[1] = 0
    /\ \A k \in 0..2 : args.p[k] # 0
    /\ ~ret.val[0].exact

\* C7: for the measured qubit q at position i, with p0 = params['0'][i] and
\* p1 = params['1'][i], the property returns under q the six half sums and
\* half differences, so that XI + XZ is p0's term and XI - XZ is p1's.
C7_Hamiltonian ==
    op = "hamiltonian" =>
        \A i \in DOMAIN measured_qubits :
            LET h == ret.val[measured_qubits[i]]
                p0 == _params["0"][i]
                p1 == _params["1"][i]
            IN /\ h["XI"] = Rat(p0[0] + p1[0], 2)
               /\ h["YI"] = Rat(p0[1] + p1[1], 2)
               /\ h["ZI"] = Rat(p0[2] + p1[2], 2)
               /\ h["XZ"] = Rat(p0[0] - p1[0], 2)
               /\ h["YZ"] = Rat(p0[1] - p1[1], 2)
               /\ h["ZZ"] = Rat(p0[2] - p1[2], 2)
               /\ RatAdd(h["XI"], h["XZ"]) = Rat(p0[0], 1)
               /\ RatAdd(h["XI"], RatNeg(h["XZ"])) = Rat(p1[0], 1)
               /\ RatAdd(h["YI"], h["YZ"]) = Rat(p0[1], 1)
               /\ RatAdd(h["YI"], RatNeg(h["YZ"])) = Rat(p1[1], 1)
               /\ RatAdd(h["ZI"], h["ZZ"]) = Rat(p0[2], 1)
               /\ RatAdd(h["ZI"], RatNeg(h["ZZ"])) = Rat(p1[2], 1)

\* two measured qubits whose ids are not their positions, a half-integer
\* coefficient and a nonzero XZ
C7_Witness ==
    /\ op = "hamiltonian"
    /\ PyLen(measured_qubits) >= 2
    /\ measured_qubits[0] # 0
    /\ ret.val[measured_qubits[1]]["XZ"].num # 0
    /\ ret.val[measured_qubits[1]]["XI"].den = 2

\* C8: ZZ_rate(qind) returns parameter 1 of series '1' minus that of series
\* '0' for the qubit index; with qind = -1 a vector as long as the qubit list
\* whose i-th entry is that difference for qubit i.
C8_ZZRate ==
    op = "ZZ_rate" =>
        IF args.qind = -1
        THEN /\ ret.val.tag = "ndarray"
             /\ PyLen(ret.val.val) = PyLen(_qubits)
             /\ \A i \in DOMAIN _qubits :
                   ret.val.val[i] = _params["1"][i][1] - _params["0"][i][1]
        ELSE /\ ret.val.tag = "float"
             /\ ret.val.val = _params["1"][args.qind][1] - _params["0"][args.qind][1]

\* all qubits asked for, the rates nonzero and different
C8_Witness ==
    /\ op = "ZZ_rate"
    /\ args.qind = -1
    /\ PyLen(_qubits) >= 2
    /\ ret.val.val[0] # 0
    /\ ret.val.val[0] # ret.val.val[1]

\* C9: every access to the hamiltonian property returns the coefficients of
\* the fit parameters current at that access, whatever replacements and
\* accesses came before.
C9_NoStaleness ==
    [][op' = "hamiltonian" =>
          \A qid \in {measured_qubits[i] : i \in DOMAIN measured_qubits} :
              ret'.val[qid] = coefficients(_params["0"][index(measured_qubits, qid)],
                                           _params["1"][index(measured_qubits, qid)])]_vars

\* an access that replaced coefficients computed from earlier parameters
C9_Witness == op = "hamiltonian" /\ effect = "changed"

\* C10: only _calc_data writes the reduced observable table; an access to
\* hamiltonian or a call of ZZ_rate leaves the table, the fit parameters, the
\* time series and the backend results as they were, and an access right
\* after an access returns equal coefficients.
C10_Frame ==
    [][/\ op' \in {"hamiltonian", "ZZ_rate"} =>
            UNCHANGED <<_ydata, _params, _xdata, _backend_result_list>>
       /\ _ydata' # _ydata => op' = "_calc_data"
       /\ (op = "hamiltonian" /\ op' = "hamiltonian") => ret' = ret]_vars

\* a second access in a row, the table reduced before
C10_Witness ==
    /\ op = "hamiltonian"
    /\ effect = "same"
    /\ "1" \in DOMAIN _ydata
    /\ _ydata["1"][0].mean.tag = "ndarray"

====
